---- MODULE Spec2Model ----
(***************************************************************************)
(* Time-scale controller (DebugConfig) and the Running state (DemoState)   *)
(* of dwarf_seeks_fortune, with the frame driver and state stack that      *)
(* deliver events to it.                                                   *)
(*                                                                         *)
(* f32 values are modelled by integers in units of 0.5 (1 stands for 0.5,  *)
(* 2 for 1.0, ...); only their order matters to the code.  NaN is a value  *)
(* of its own that compares false with everything.                         *)
(*                                                                         *)
(* The state stack, the frame driver and PausedState are not part of the   *)
(* two source files; they follow sections 4.3 and 4.4 of the design: the   *)
(* events of a frame are delivered to the top state until one of them      *)
(* returns a request, then the update hook runs, then the request is       *)
(* applied.                                                                *)
(***************************************************************************)
EXTENDS Integers, Sequences, FiniteSets, TLC

VARIABLES
    time_scale_presets,  \* DebugConfig.time_scale_presets
    time_scale,          \* DebugConfig.time_scale
    initial_scale,       \* history: the time_scale the configuration was loaded with
    changed,             \* history: some step has changed time_scale
    stack,               \* the state stack, bottom first
    running,             \* FALSE once Quit has been applied
    phase,               \* position of the frame driver in the current frame
    pending,             \* the transition request queued in this frame
    advanced,            \* the simulation was advanced in this frame
    hooks,               \* history: the hooks invoked by the transition that ended
                         \* the previous frame, until this frame proceeds
    last                 \* history: the last call of a state's handle_event

vars == <<time_scale_presets, time_scale, initial_scale, changed,
          stack, running, phase, pending, advanced, hooks, last>>

----------------------------------------------------------------------------
(* Bounds *)

MaxVal == 2
MaxLen == 3
MaxStack == 4

----------------------------------------------------------------------------
(* f32 *)

NaN == -1

Gt(a, b) == a # NaN /\ b # NaN /\ a > b

Lt(a, b) == a # NaN /\ b # NaN /\ a < b

Range(s) == {s[i] : i \in 1..Len(s)}

\* the presets of the spec's scenario, [0.5, 1.0, 2.0, 4.0], in units of 0.5
ScenarioPresets == <<1, 2, 4, 8>>

PresetValues == (0..MaxVal) \cup {NaN}

BoundedSeq(S, n) == UNION {[1..k -> S] : k \in 0..n}

PresetLists == BoundedSeq(PresetValues, MaxLen) \cup {ScenarioPresets}

Scales == PresetValues \cup Range(ScenarioPresets)

\* the configurations a run starts from: every bounded list with every bounded
\* scale, and the scenario's list with every scale
Configs ==
    {c \in PresetLists \X Scales : c[1] = ScenarioPresets \/ c[2] \in PresetValues}

----------------------------------------------------------------------------
(* DebugConfig *)

MinOf(S) == CHOOSE m \in S : \A q \in S : m <= q

MaxOf(S) == CHOOSE m \in S : \A q \in S : m >= q

\* variant: the nearest greater preset by value (min_by) instead of the first
find_gt_nearest(s, i, x) ==
    LET I == {j \in i..Len(s) : Gt(s[j], x)}
    IN  IF I = {} THEN 0
        ELSE MinOf({j \in I : \A k \in I : s[j] <= s[k]})

\* variant: the comparison is != instead of >
find_gt_ne(s, i, x) ==
    LET I == {j \in i..Len(s) : s[j] = NaN \/ x = NaN \/ s[j] # x}
    IN  IF I = {} THEN 0 ELSE MinOf(I)

\* variant: the comparison is >= instead of >
find_gt_ge(s, i, x) ==
    LET I == {j \in i..Len(s) : s[j] # NaN /\ x # NaN /\ s[j] >= x}
    IN  IF I = {} THEN 0 ELSE MinOf(I)

\* iter().find(|scale| scale > x): index of the first match from i on, 0 for None
RECURSIVE find_gt(_, _, _)
find_gt(s, i, x) ==
    IF i > Len(s) THEN 0
    ELSE IF Gt(s[i], x) THEN i
    ELSE find_gt(s, i + 1, x)

\* variant: the closure is a copy of the one of increase_speed (>)
rfind_lt_gt(s, i, x) ==
    LET I == {j \in 1..i : Gt(s[j], x)}
    IN  IF I = {} THEN 0 ELSE MaxOf(I)

\* variant: the comparison is <= instead of <
rfind_lt_le(s, i, x) ==
    LET I == {j \in 1..i : s[j] # NaN /\ x # NaN /\ s[j] <= x}
    IN  IF I = {} THEN 0 ELSE MaxOf(I)

\* variant: the scan is not reversed
rfind_lt_forward(s, i, x) ==
    LET I == {j \in 1..i : Lt(s[j], x)}
    IN  IF I = {} THEN 0 ELSE MinOf(I)

\* iter().rev().find(|scale| scale < x): index of the first match from i down, 0 for None
RECURSIVE rfind_lt(_, _, _)
rfind_lt(s, i, x) ==
    IF i < 1 THEN 0
    ELSE IF Lt(s[i], x) THEN i
    ELSE rfind_lt(s, i - 1, x)

\* variant: the scan is reversed, so the step jumps to the last greater preset
increase_speed_last(presets, scale) ==
    LET I == {j \in 1..Len(presets) : Gt(presets[j], scale)}
    IN  IF I # {}
        THEN [time_scale |-> presets[MaxOf(I)], ret |-> <<scale, presets[MaxOf(I)]>>]
        ELSE [time_scale |-> scale, ret |-> <<scale, scale>>]

\* variant: at the fastest speed the step wraps around to the first preset
increase_speed_wrap(presets, scale) ==
    LET new_time_scale == find_gt(presets, 1, scale)
    IN  IF new_time_scale # 0
        THEN [time_scale |-> presets[new_time_scale],
              ret |-> <<scale, presets[new_time_scale]>>]
        ELSE IF Len(presets) > 0
        THEN [time_scale |-> presets[1], ret |-> <<scale, presets[1]>>]
        ELSE [time_scale |-> scale, ret |-> <<scale, scale>>]

\* variant: position() instead of find(): the index is stored, not the preset
increase_speed_position(presets, scale) ==
    LET new_time_scale == find_gt(presets, 1, scale)
    IN  IF new_time_scale # 0
        THEN [time_scale |-> new_time_scale, ret |-> <<scale, new_time_scale>>]
        ELSE [time_scale |-> scale, ret |-> <<scale, scale>>]

\* the new time_scale and the returned tuple
increase_speed(presets, scale) ==
    LET old_time_scale == scale
        new_time_scale == find_gt(presets, 1, scale)
    IN  IF new_time_scale # 0
        THEN [time_scale |-> presets[new_time_scale],
              ret |-> <<old_time_scale, presets[new_time_scale]>>]
        ELSE [time_scale |-> scale, ret |-> <<scale, scale>>]

\* variant: with no slower preset the clock is frozen (0.0)
decrease_speed_floor(presets, scale) ==
    LET new_time_scale == rfind_lt(presets, Len(presets), scale)
    IN  IF new_time_scale # 0
        THEN [time_scale |-> presets[new_time_scale],
              ret |-> <<scale, presets[new_time_scale]>>]
        ELSE [time_scale |-> 0, ret |-> <<scale, 0>>]

decrease_speed(presets, scale) ==
    LET old_time_scale == scale
        new_time_scale == rfind_lt(presets, Len(presets), scale)
    IN  IF new_time_scale # 0
        THEN [time_scale |-> presets[new_time_scale],
              ret |-> <<old_time_scale, presets[new_time_scale]>>]
        ELSE [time_scale |-> scale, ret |-> <<scale, scale>>]

----------------------------------------------------------------------------
(* Events and transition requests *)

Keys == {"F1", "Escape", "Space"}

ActionNames == {"speedUp", "slowDown", "pause", "quit", "jump"}

WindowEvents ==
    {[class |-> "Window", kind |-> "CloseRequested", arg |-> ""],
     [class |-> "Window", kind |-> "Resized", arg |-> ""]}
    \cup {[class |-> "Window", kind |-> "KeyDown", arg |-> key] : key \in Keys}
    \cup {[class |-> "Window", kind |-> "KeyUp", arg |-> "Escape"]}

UiEvents == {[class |-> "Ui", kind |-> "Click", arg |-> ""]}

InputEvents ==
    {[class |-> "Input", kind |-> "ActionPressed", arg |-> a] : a \in ActionNames}
    \cup {[class |-> "Input", kind |-> "ActionReleased", arg |-> "speedUp"]}

StateEvents == WindowEvents \cup UiEvents \cup InputEvents

TransNone == [type |-> "None", state |-> ""]
TransQuit == [type |-> "Quit", state |-> ""]
TransPop == [type |-> "Pop", state |-> ""]
TransPush(s) == [type |-> "Push", state |-> s]
TransSwitch(s) == [type |-> "Switch", state |-> s]

is_close_requested(event) == event.kind = "CloseRequested"

is_key_down(event, key) == event.kind = "KeyDown" /\ event.arg = key

----------------------------------------------------------------------------
(* DemoState *)

\* variant: an unknown action quits
handle_action_unknown_quit(action, presets, scale) ==
    IF action = "speedUp"
    THEN LET r == increase_speed(presets, scale)
         IN  [trans |-> TransNone, time_scale |-> r.time_scale,
              ret |-> r.ret, calls |-> <<"increase_speed">>]
    ELSE IF action = "slowDown"
    THEN LET r == decrease_speed(presets, scale)
         IN  [trans |-> TransNone, time_scale |-> r.time_scale,
              ret |-> r.ret, calls |-> <<"decrease_speed">>]
    ELSE [trans |-> TransQuit, time_scale |-> scale, ret |-> <<>>, calls |-> <<>>]

\* variant: the slowDown branch is a copy of the speedUp branch
handle_action_copied(action, presets, scale) ==
    IF action = "speedUp" \/ action = "slowDown"
    THEN LET r == increase_speed(presets, scale)
         IN  [trans |-> TransNone, time_scale |-> r.time_scale,
              ret |-> r.ret, calls |-> <<"increase_speed">>]
    ELSE [trans |-> TransNone, time_scale |-> scale, ret |-> <<>>, calls |-> <<>>]

\* variant: a "pause" action pushes the paused state
handle_action_pause(action, presets, scale) ==
    IF action = "speedUp"
    THEN LET r == increase_speed(presets, scale)
         IN  [trans |-> TransNone, time_scale |-> r.time_scale,
              ret |-> r.ret, calls |-> <<"increase_speed">>]
    ELSE IF action = "slowDown"
    THEN LET r == decrease_speed(presets, scale)
         IN  [trans |-> TransNone, time_scale |-> r.time_scale,
              ret |-> r.ret, calls |-> <<"decrease_speed">>]
    ELSE IF action = "pause"
    THEN [trans |-> TransPush("Paused"), time_scale |-> scale, ret |-> <<>>, calls |-> <<>>]
    ELSE [trans |-> TransNone, time_scale |-> scale, ret |-> <<>>, calls |-> <<>>]

\* the request returned, the new time_scale, the tuple printed and the calls made
handle_action(action, presets, scale) ==
    IF action = "speedUp"
    THEN LET r == increase_speed(presets, scale)
         IN  [trans |-> TransNone, time_scale |-> r.time_scale,
              ret |-> r.ret, calls |-> <<"increase_speed">>]
    ELSE IF action = "slowDown"
    THEN LET r == decrease_speed(presets, scale)
         IN  [trans |-> TransNone, time_scale |-> r.time_scale,
              ret |-> r.ret, calls |-> <<"decrease_speed">>]
    ELSE [trans |-> TransNone, time_scale |-> scale, ret |-> <<>>, calls |-> <<>>]

\* variant: the Escape branch switches to the paused state instead of pushing it
handle_event_escape_switch(event, presets, scale) ==
    IF event.class = "Window"
    THEN [trans |-> IF is_close_requested(event) \/ is_key_down(event, "F1")
                    THEN TransQuit
                    ELSE IF is_key_down(event, "Escape")
                    THEN TransSwitch("Paused")
                    ELSE TransNone,
          time_scale |-> scale, ret |-> <<>>, calls |-> <<>>]
    ELSE IF event.class = "Ui"
    THEN [trans |-> TransNone, time_scale |-> scale, ret |-> <<>>, calls |-> <<>>]
    ELSE IF event.kind = "ActionPressed"
    THEN handle_action(event.arg, presets, scale)
    ELSE [trans |-> TransNone, time_scale |-> scale, ret |-> <<>>, calls |-> <<>>]

\* variant: every input event is routed as an action, pressed or not
handle_event_any_input(event, presets, scale) ==
    IF event.class = "Window"
    THEN [trans |-> IF is_close_requested(event) \/ is_key_down(event, "F1")
                    THEN TransQuit
                    ELSE IF is_key_down(event, "Escape")
                    THEN TransPush("Paused")
                    ELSE TransNone,
          time_scale |-> scale, ret |-> <<>>, calls |-> <<>>]
    ELSE IF event.class = "Ui"
    THEN [trans |-> TransNone, time_scale |-> scale, ret |-> <<>>, calls |-> <<>>]
    ELSE handle_action(event.arg, presets, scale)

\* variant: the Escape branch quits instead of pausing
handle_event_escape_quit(event, presets, scale) ==
    IF event.class = "Window"
    THEN [trans |-> IF is_close_requested(event) \/ is_key_down(event, "F1")
                       \/ is_key_down(event, "Escape")
                    THEN TransQuit
                    ELSE TransNone,
          time_scale |-> scale, ret |-> <<>>, calls |-> <<>>]
    ELSE IF event.class = "Ui"
    THEN [trans |-> TransNone, time_scale |-> scale, ret |-> <<>>, calls |-> <<>>]
    ELSE IF event.kind = "ActionPressed"
    THEN handle_action(event.arg, presets, scale)
    ELSE [trans |-> TransNone, time_scale |-> scale, ret |-> <<>>, calls |-> <<>>]

handle_event(event, presets, scale) ==
    IF event.class = "Window"
    THEN [trans |-> IF is_close_requested(event) \/ is_key_down(event, "F1")
                    THEN TransQuit
                    ELSE IF is_key_down(event, "Escape")
                    THEN TransPush("Paused")
                    ELSE TransNone,
          time_scale |-> scale, ret |-> <<>>, calls |-> <<>>]
    ELSE IF event.class = "Ui"
    THEN [trans |-> TransNone, time_scale |-> scale, ret |-> <<>>, calls |-> <<>>]
    ELSE IF event.kind = "ActionPressed"
    THEN handle_action(event.arg, presets, scale)
    ELSE [trans |-> TransNone, time_scale |-> scale, ret |-> <<>>, calls |-> <<>>]

\* variant: the dispatcher is told that the game is not running
update_not_running == [trans |-> TransNone, advanced |-> FALSE]

\* variant: the update hook requests a transition of its own
update_quit == [trans |-> TransQuit, advanced |-> TRUE]

\* DemoState::update: runs the dispatcher (advances the simulation), returns None
update == [trans |-> TransNone, advanced |-> TRUE]

----------------------------------------------------------------------------
(* PausedState *)

paused_handle_event(event, presets, scale) ==
    [trans |-> IF event.class = "Window" /\ is_key_down(event, "Escape")
               THEN TransPop
               ELSE TransNone,
     time_scale |-> scale, ret |-> <<>>, calls |-> <<>>]

paused_update == [trans |-> TransNone, advanced |-> FALSE]

----------------------------------------------------------------------------
(* State stack and frame driver *)

Top(stk) == stk[Len(stk)]

\* variant: popping the last state leaves a live, empty stack
apply_transition_pop_empty(stk, req) ==
    IF req.type = "Pop"
    THEN [stack |-> SubSeq(stk, 1, Len(stk) - 1), running |-> TRUE,
          hooks |-> IF Len(stk) >= 1 THEN <<<<Top(stk), "stop">>>> ELSE <<>>]
    ELSE [stack |-> stk, running |-> req.type # "Quit", hooks |-> <<>>]

apply_transition(stk, req) ==
    IF req.type = "None" THEN [stack |-> stk, running |-> TRUE, hooks |-> <<>>]
    ELSE IF req.type = "Quit" THEN [stack |-> stk, running |-> FALSE, hooks |-> <<>>]
    ELSE IF req.type = "Push"
    THEN [stack |-> Append(stk, req.state), running |-> TRUE,
          hooks |-> <<<<Top(stk), "pause">>, <<req.state, "start">>>>]
    ELSE IF req.type = "Pop"
    THEN IF Len(stk) <= 1
         THEN [stack |-> stk, running |-> FALSE, hooks |-> <<>>]
         ELSE [stack |-> SubSeq(stk, 1, Len(stk) - 1), running |-> TRUE,
               hooks |-> <<<<Top(stk), "stop">>, <<stk[Len(stk) - 1], "resume">>>>]
    ELSE IF Len(stk) <= 1
         THEN [stack |-> <<req.state>>, running |-> TRUE,
               hooks |-> <<<<Top(stk), "stop">>, <<req.state, "start">>>>]
         ELSE [stack |-> Append(SubSeq(stk, 1, Len(stk) - 1), req.state),
               running |-> TRUE,
               hooks |-> <<<<Top(stk), "stop">>, <<req.state, "start">>>>]

NoCall == [event |-> [class |-> "", kind |-> "", arg |-> ""], state |-> "",
           before |-> 0, ret |-> <<>>, calls |-> <<>>, trans |-> TransNone]

Init ==
    /\ \E c \in Configs :
          /\ time_scale_presets = c[1]
          /\ time_scale = c[2]
          /\ initial_scale = c[2]
    /\ changed = FALSE
    /\ stack = <<"Running">>
    /\ running = TRUE
    /\ phase = "events"
    /\ pending = TransNone
    /\ advanced = FALSE
    /\ hooks = <<>>
    /\ last = NoCall

\* variant: delivery goes on after a request, and a later event overrides it
DeliverEvent_override(event) ==
    /\ running
    /\ phase = "events"
    /\ LET r == IF Top(stack) = "Running"
                THEN handle_event(event, time_scale_presets, time_scale)
                ELSE paused_handle_event(event, time_scale_presets, time_scale)
       IN  /\ time_scale' = r.time_scale
           /\ changed' = (changed \/ r.time_scale # time_scale)
           /\ pending' = r.trans
           /\ last' = [event |-> event, state |-> Top(stack), before |-> time_scale,
                       ret |-> r.ret, calls |-> r.calls, trans |-> r.trans]
    /\ hooks' = <<>>
    /\ UNCHANGED <<time_scale_presets, initial_scale, stack, running, phase, advanced>>

\* the frame driver delivers one queued event to the top state's handler
DeliverEvent(event) ==
    /\ running
    /\ phase = "events"
    /\ pending = TransNone
    /\ LET r == IF Top(stack) = "Running"
                THEN handle_event(event, time_scale_presets, time_scale)
                ELSE paused_handle_event(event, time_scale_presets, time_scale)
       IN  /\ time_scale' = r.time_scale
           /\ changed' = (changed \/ r.time_scale # time_scale)
           /\ pending' = r.trans
           /\ last' = [event |-> event, state |-> Top(stack), before |-> time_scale,
                       ret |-> r.ret, calls |-> r.calls, trans |-> r.trans]
    /\ hooks' = <<>>
    /\ UNCHANGED <<time_scale_presets, initial_scale, stack, running, phase, advanced>>

\* the queue of this frame is drained, or its rest is dropped; the handler
\* is not called again in this frame
EndEvents ==
    /\ running
    /\ phase = "events"
    /\ phase' = "update"
    /\ last' = NoCall
    /\ hooks' = <<>>
    /\ UNCHANGED <<time_scale_presets, time_scale, initial_scale, changed,
                   stack, running, pending, advanced>>

\* the update hook of the top state
Update ==
    /\ running
    /\ phase = "update"
    /\ LET r == IF Top(stack) = "Running" THEN update ELSE paused_update
       IN  /\ advanced' = r.advanced
           /\ pending' = IF pending # TransNone THEN pending ELSE r.trans
    /\ phase' = "transition"
    /\ UNCHANGED <<time_scale_presets, time_scale, initial_scale, changed,
                   stack, running, hooks, last>>

\* the one transition of the frame
ApplyTransition ==
    /\ running
    /\ phase = "transition"
    /\ LET r == apply_transition(stack, pending)
       IN  /\ stack' = r.stack
           /\ running' = r.running
           /\ hooks' = r.hooks
    /\ pending' = TransNone
    /\ advanced' = FALSE
    /\ phase' = "events"
    /\ UNCHANGED <<time_scale_presets, time_scale, initial_scale, changed, last>>

Next ==
    \/ \E event \in StateEvents : DeliverEvent(event)
    \/ EndEvents
    \/ Update
    \/ ApplyTransition

Spec == Init /\ [][Next]_vars

\* every stack of at most MaxStack states
StackConfigs == UNION {[1..k -> {"Running", "Paused"}] : k \in 1..MaxStack}

\* the state stack in any configuration, at the start of a frame
InitStack ==
    /\ time_scale_presets = ScenarioPresets
    /\ time_scale \in Scales
    /\ initial_scale = time_scale
    /\ changed = FALSE
    /\ stack \in StackConfigs
    /\ running = TRUE
    /\ phase = "events"
    /\ pending = TransNone
    /\ advanced = FALSE
    /\ hooks = <<>>
    /\ last = NoCall

\* a frame whose request is Pop, whatever the top state is
PopFrame ==
    /\ running
    /\ phase = "events"
    /\ pending = TransNone
    /\ LET r == apply_transition(stack, TransPop)
       IN  /\ stack' = r.stack
           /\ running' = r.running
           /\ hooks' = r.hooks
    /\ last' = NoCall
    /\ UNCHANGED <<time_scale_presets, time_scale, initial_scale, changed,
                   phase, pending, advanced>>

NextStack ==
    \/ \E event \in StateEvents : DeliverEvent(event)
    \/ EndEvents
    \/ Update
    \/ ApplyTransition
    \/ PopFrame

SpecStack == InitStack /\ [][NextStack]_vars

----------------------------------------------------------------------------
(* Properties of the time-scale controller *)

StrictlyIncreasing(s) == \A i \in 1..(Len(s) - 1) : Lt(s[i], s[i + 1])

SpeedUpCalled == last.calls = <<"increase_speed">>

SlowDownCalled == last.calls = <<"decrease_speed">>

GreaterPresets(x) == {p \in Range(time_scale_presets) : Gt(p, x)}

SmallerPresets(x) == {p \in Range(time_scale_presets) : Lt(p, x)}

\* C1: after a speed_up on strictly increasing presets, if some preset is
\* strictly greater than the scale before the call, the scale is the smallest
\* such preset and the call returned (old, that preset); otherwise the scale
\* is unchanged and the call returned (scale, scale).
C1_SpeedUpSmallestGreater ==
    (SpeedUpCalled /\ StrictlyIncreasing(time_scale_presets)) =>
        LET G == GreaterPresets(last.before)
        IN  IF G # {}
            THEN time_scale = MinOf(G) /\ last.ret = <<last.before, MinOf(G)>>
            ELSE time_scale = last.before /\ last.ret = <<last.before, last.before>>

\* a speed_up from a scale off the list, with two greater presets to choose from
C1_Witness ==
    /\ SpeedUpCalled
    /\ StrictlyIncreasing(time_scale_presets)
    /\ last.before \notin Range(time_scale_presets)
    /\ Cardinality(GreaterPresets(last.before)) >= 2
    /\ time_scale = MinOf(GreaterPresets(last.before))

\* C2: after a slow_down on strictly increasing presets, if some preset is
\* strictly less than the scale before the call, the scale is the largest such
\* preset and the call returned (old, that preset); otherwise the scale is
\* unchanged and the call returned (scale, scale).
C2_SlowDownLargestSmaller ==
    (SlowDownCalled /\ StrictlyIncreasing(time_scale_presets)) =>
        LET S == SmallerPresets(last.before)
        IN  IF S # {}
            THEN time_scale = MaxOf(S) /\ last.ret = <<last.before, MaxOf(S)>>
            ELSE time_scale = last.before /\ last.ret = <<last.before, last.before>>

\* a slow_down from a scale off the list, with two smaller presets to choose from
C2_Witness ==
    /\ SlowDownCalled
    /\ StrictlyIncreasing(time_scale_presets)
    /\ last.before \notin Range(time_scale_presets)
    /\ Cardinality(SmallerPresets(last.before)) >= 2
    /\ time_scale = MaxOf(SmallerPresets(last.before))

\* the returns of speed_up, speed_up, speed_up, slow_down from 1.0 on the
\* scenario's presets
ScenarioReturns ==
    LET s1 == increase_speed(ScenarioPresets, 2)
        s2 == increase_speed(ScenarioPresets, s1.time_scale)
        s3 == increase_speed(ScenarioPresets, s2.time_scale)
        s4 == decrease_speed(ScenarioPresets, s3.time_scale)
    IN  <<s1.ret, s2.ret, s3.ret, s4.ret>>

\* C3: monotonic stepping.  On non-empty strictly increasing presets, from
\* the scale presets[i], speed_up returns (presets[i], presets[i+1]) and moves
\* there if i+1 exists, else returns (presets[i], presets[i]); slow_down
\* returns (presets[i], presets[i-1]) if i-1 exists, else (presets[i],
\* presets[i]).  On [0.5, 1.0, 2.0, 4.0] from 1.0 the calls speed_up, speed_up,
\* speed_up, slow_down return (1.0,2.0), (2.0,4.0), (4.0,4.0), (4.0,2.0).
C3_MonotonicStepping ==
    /\ \A i \in 1..Len(time_scale_presets) :
         (StrictlyIncreasing(time_scale_presets)
            /\ last.before = time_scale_presets[i]) =>
           LET p == time_scale_presets
               up == IF i + 1 <= Len(p) THEN p[i + 1] ELSE p[i]
               down == IF i - 1 >= 1 THEN p[i - 1] ELSE p[i]
           IN  /\ SpeedUpCalled => (last.ret = <<p[i], up>> /\ time_scale = up)
               /\ SlowDownCalled => (last.ret = <<p[i], down>> /\ time_scale = down)
    /\ ScenarioReturns = << <<2, 4>>, <<4, 8>>, <<8, 8>>, <<8, 4>> >>

\* the last call of the scenario, reached from the initial scale 1.0
C3_Witness ==
    /\ time_scale_presets = ScenarioPresets
    /\ initial_scale = 2
    /\ SlowDownCalled
    /\ last.before = 8
    /\ last.ret = <<8, 4>>
    /\ time_scale = 4

IsHighest(x) ==
    /\ x # NaN
    /\ x \in Range(time_scale_presets)
    /\ \A q \in Range(time_scale_presets) : ~Gt(q, x)

IsLowest(x) ==
    /\ x # NaN
    /\ x \in Range(time_scale_presets)
    /\ \A q \in Range(time_scale_presets) : ~Lt(q, x)

\* C4: idempotent boundary.  A speed_up at the highest preset returns
\* (max, max) and leaves the scale at max, a slow_down at the lowest preset
\* returns (min, min) and leaves the scale at min, so any number of such calls
\* in a row do the same; the handler returns normally with no transition.
C4_IdempotentBoundary ==
    /\ (SpeedUpCalled /\ IsHighest(last.before)) =>
          /\ last.ret = <<last.before, last.before>>
          /\ time_scale = last.before
          /\ last.trans = TransNone
    /\ (SlowDownCalled /\ IsLowest(last.before)) =>
          /\ last.ret = <<last.before, last.before>>
          /\ time_scale = last.before
          /\ last.trans = TransNone

\* a speed_up at the top of a list of several presets, after an earlier step
C4_Witness ==
    /\ SpeedUpCalled
    /\ changed
    /\ Len(time_scale_presets) >= 2
    /\ StrictlyIncreasing(time_scale_presets)
    /\ IsHighest(last.before)
    /\ time_scale = last.before

\* C5: with an empty presets list every step call returns (x, x) and the
\* scale stays at its starting value x after any sequence of step calls.
C5_EmptyPresets ==
    time_scale_presets = <<>> =>
        /\ time_scale = initial_scale
        /\ ~changed
        /\ (SpeedUpCalled \/ SlowDownCalled) =>
              last.ret = <<initial_scale, initial_scale>>

\* a slow_down on an empty list from a scale above zero
C5_Witness ==
    /\ time_scale_presets = <<>>
    /\ SlowDownCalled
    /\ Gt(initial_scale, 0)

\* C6: scale membership.  In every reachable state the scale is an element
\* of presets or still the configured initial value; once a step has changed
\* it, it is an element of presets.
C6_ScaleMembership ==
    /\ time_scale \in Range(time_scale_presets) \/ time_scale = initial_scale
    /\ changed => time_scale \in Range(time_scale_presets)

\* a step has moved the scale from an initial value off the list onto the list
C6_Witness ==
    /\ changed
    /\ initial_scale \notin Range(time_scale_presets)
    /\ time_scale \in Range(time_scale_presets)

----------------------------------------------------------------------------
(* Properties of the Running state's event handler *)

ActionPressed(a) == [class |-> "Input", kind |-> "ActionPressed", arg |-> a]

KeyDown(key) == [class |-> "Window", kind |-> "KeyDown", arg |-> key]

CloseRequested == [class |-> "Window", kind |-> "CloseRequested", arg |-> ""]

\* an action that is neither speedUp nor slowDown, a UI event, an input event
\* that is not an action-pressed event
UnrecognizedEvents ==
    {e \in StateEvents :
        \/ e.class = "Ui"
        \/ e.class = "Input" /\ e.kind # "ActionPressed"
        \/ e.class = "Input" /\ e.kind = "ActionPressed"
             /\ e.arg \notin {"speedUp", "slowDown"}}

\* C7: an unrecognized input delivered to the Running state yields
\* TransitionRequest::None and leaves the scale, the presets, the stack and
\* the running flag unchanged.
C7_UnrecognizedIgnored ==
    [][(/\ Top(stack) = "Running"
        /\ last'.event \in UnrecognizedEvents
        /\ DeliverEvent(last'.event)) =>
            /\ last'.trans = TransNone
            /\ pending' = TransNone
            /\ time_scale' = time_scale
            /\ time_scale_presets' = time_scale_presets
            /\ stack' = stack
            /\ running' = running]_vars

\* an unknown action has been delivered to Running after a step moved the scale
C7_Witness ==
    /\ last.state = "Running"
    /\ last.event = ActionPressed("jump")
    /\ last.trans = TransNone
    /\ changed

\* the first element in list order that is greater than x, x if there is none
FirstGreater(x) ==
    LET I == {i \in 1..Len(time_scale_presets) : Gt(time_scale_presets[i], x)}
    IN  IF I = {} THEN x ELSE time_scale_presets[MinOf(I)]

\* the last element in list order that is less than x, x if there is none
LastSmaller(x) ==
    LET I == {i \in 1..Len(time_scale_presets) : Lt(time_scale_presets[i], x)}
    IN  IF I = {} THEN x ELSE time_scale_presets[MaxOf(I)]

\* C8: an action-pressed "speedUp" delivered to the Running state performs
\* exactly one speed_up and returns None, "slowDown" performs exactly one
\* slow_down and returns None; neither changes the state stack.
C8_StepRouting ==
    [][/\ (/\ Top(stack) = "Running"
           /\ last'.event = ActionPressed("speedUp")
           /\ DeliverEvent(ActionPressed("speedUp"))) =>
            /\ last'.calls = <<"increase_speed">>
            /\ time_scale' = FirstGreater(time_scale)
            /\ last'.ret = <<time_scale, time_scale'>>
            /\ last'.trans = TransNone
            /\ pending' = TransNone
            /\ stack' = stack
            /\ running' = running
       /\ (/\ Top(stack) = "Running"
           /\ last'.event = ActionPressed("slowDown")
           /\ DeliverEvent(ActionPressed("slowDown"))) =>
            /\ last'.calls = <<"decrease_speed">>
            /\ time_scale' = LastSmaller(time_scale)
            /\ last'.ret = <<time_scale, time_scale'>>
            /\ last'.trans = TransNone
            /\ pending' = TransNone
            /\ stack' = stack
            /\ running' = running]_vars

\* a slowDown action has moved the scale down
C8_Witness ==
    /\ last.state = "Running"
    /\ last.event = ActionPressed("slowDown")
    /\ SlowDownCalled
    /\ Lt(time_scale, last.before)

StateAlteringPressed ==
    /\ last.state = "Running"
    /\ last.event \in {ActionPressed("pause"), ActionPressed("quit")}

\* C9 as stated: the actions "pause" and "quit" are routed to a transition
\* request other than None, without mutating the controller.
C9_Original ==
    StateAlteringPressed =>
        /\ last.trans # TransNone
        /\ time_scale = last.before

\* C9: the actions "pause" and "quit" are routed like any unknown action: to
\* TransitionRequest::None, without a call to the controller and without
\* mutating it.
C9_PauseQuitActionsIgnored ==
    StateAlteringPressed =>
        /\ last.trans = TransNone
        /\ pending = TransNone
        /\ last.calls = <<>>
        /\ time_scale = last.before

\* a "pause" action has been delivered to Running
C9_Witness ==
    /\ last.state = "Running"
    /\ last.event = ActionPressed("pause")
    /\ phase = "events"

\* the request each window event maps to
WindowRequest(e) ==
    CASE e = CloseRequested -> TransQuit
      [] e = KeyDown("F1") -> TransQuit
      [] e = KeyDown("Escape") -> TransPush("Paused")
      [] OTHER -> TransNone

\* C10: in the Running state a close request or an F1 key-down yields Quit,
\* an Escape key-down yields Push(Paused), every other window event yields
\* None, and none of them changes the scale.
C10_WindowEventMapping ==
    (last.state = "Running" /\ last.event \in WindowEvents) =>
        /\ last.trans = WindowRequest(last.event)
        /\ pending = last.trans
        /\ time_scale = last.before
        /\ last.calls = <<>>

\* an Escape key-down has been answered by Push(Paused)
C10_Witness ==
    /\ last.state = "Running"
    /\ last.event = KeyDown("Escape")
    /\ last.trans = TransPush("Paused")
    /\ pending = TransPush("Paused")

----------------------------------------------------------------------------
(* Properties of the state stack and the frame driver *)

\* C11: the stack is non-empty in every live state, from [Running] and from
\* any other stack configuration; a Pop with one state left quits, and every
\* other Pop shortens the stack by one and leaves it live, so that repeated
\* Pops end in Quit and never in a live empty stack.
C11_StackNeverEmpties ==
    /\ [](running => Len(stack) >= 1)
    /\ [][PopFrame =>
            IF Len(stack) = 1
            THEN ~running'
            ELSE running' /\ Len(stack') = Len(stack) - 1]_vars

\* the last state of a stack has been popped: the stack is terminal, not empty
C11_Witness ==
    /\ ~running
    /\ Len(stack) = 1
    /\ phase = "events"
    /\ pending = TransNone

\* C12: an Escape key-down delivered to Running queues Push(Paused);
\* applying it to [Running] gives [Running, Paused] and invokes Running's
\* pause hook and Paused's start hook; applying a Pop to that stack gives
\* [Running] again and invokes Paused's stop hook and Running's resume hook;
\* Running's start hook is never invoked again.
C12_PauseResume ==
    /\ [][/\ (/\ Top(stack) = "Running"
               /\ last'.event = KeyDown("Escape")
               /\ DeliverEvent(KeyDown("Escape"))) =>
               pending' = TransPush("Paused")
          /\ (stack = <<"Running">> /\ pending = TransPush("Paused")
                /\ ApplyTransition) =>
               /\ stack' = <<"Running", "Paused">>
               /\ hooks' = << <<"Running", "pause">>, <<"Paused", "start">> >>
               /\ running'
          /\ (stack = <<"Running", "Paused">> /\ pending = TransPop
                /\ ApplyTransition) =>
               /\ stack' = <<"Running">>
               /\ hooks' = << <<"Paused", "stop">>, <<"Running", "resume">> >>
               /\ running']_vars
    /\ [](<<"Running", "start">> \notin Range(hooks))

\* Running is on top again after a pause, resumed by the Pop
C12_Witness ==
    /\ running
    /\ stack = <<"Running">>
    /\ hooks = << <<"Paused", "stop">>, <<"Running", "resume">> >>

\* C13: the stack changes only in the transition step, which comes after the
\* event deliveries and the update hook of the frame and ends the frame, so
\* at most one transition is applied per frame; once a handler has returned a
\* request, no further event of the frame is delivered and the request stays
\* as it is until it is applied.
C13_OneTransitionPerFrame ==
    [][/\ (stack' # stack \/ running' # running) =>
            (phase = "transition" /\ phase' = "events")
       /\ phase' # phase =>
            <<phase, phase'>> \in {<<"events", "update">>, <<"update", "transition">>,
                                   <<"transition", "events">>}
       /\ (pending # TransNone /\ phase = "events") =>
            (phase' = "update" /\ pending' = pending /\ time_scale' = time_scale)
       /\ (pending # TransNone /\ phase = "update") =>
            (phase' = "transition" /\ pending' = pending)]_vars

\* a request is queued, the update hook has run, the stack is still unchanged
C13_Witness ==
    /\ phase = "transition"
    /\ pending = TransPush("Paused")
    /\ stack = <<"Running">>
    /\ advanced

\* C14: the update hook of a frame advances the simulation when Running is on
\* top and does not when Paused is on top; outside that step of the frame
\* nothing advances it.  Events go to the top state only, and an event
\* delivered to Paused does not reach the controller.
C14_AdvanceGatedOnLiveState ==
    /\ phase = "transition" => (advanced <=> Top(stack) = "Running")
    /\ phase # "transition" => ~advanced
    /\ last # NoCall => last.state = Top(stack)
    /\ last.state = "Paused" => (time_scale = last.before /\ last.calls = <<>>)

\* a frame with Paused on top has run its update hook without advancing
C14_Witness ==
    /\ phase = "transition"
    /\ stack = <<"Running", "Paused">>
    /\ ~advanced

\* C17: the update hook of Running leaves the queued request as it is (it
\* returns None), and every request queued while Running is on top comes from
\* the event handler of Running.
C17_UpdateReturnsNone ==
    [][/\ (phase = "update" /\ Top(stack) = "Running") => pending' = pending
       /\ (Top(stack) = "Running" /\ pending' # pending /\ pending' # TransNone) =>
            /\ phase = "events"
            /\ last'.state = "Running"
            /\ last'.trans = pending'
            /\ pending'.type \in {"Quit", "Push"}]_vars

\* a Quit from an event has passed the update hook of Running unchanged
C17_Witness ==
    /\ phase = "transition"
    /\ Top(stack) = "Running"
    /\ pending = TransQuit
    /\ advanced

----------------------------------------------------------------------------
(* Further properties of the time-scale controller *)

\* C15: on any presets list, sorted or not, speed_up moves to the first
\* element in list order that is strictly greater than the scale and slow_down
\* to the last element in list order that is strictly less (or stays); this
\* need not be the nearest preset by value.
C15_ListOrderScan ==
    /\ SpeedUpCalled =>
          /\ time_scale = FirstGreater(last.before)
          /\ last.ret = <<last.before, FirstGreater(last.before)>>
    /\ SlowDownCalled =>
          /\ time_scale = LastSmaller(last.before)
          /\ last.ret = <<last.before, LastSmaller(last.before)>>

\* a speed_up on an unsorted list has passed over the nearest greater preset
C15_Witness ==
    /\ SpeedUpCalled
    /\ GreaterPresets(last.before) # {}
    /\ time_scale # MinOf(GreaterPresets(last.before))
    /\ time_scale = FirstGreater(last.before)

StepEvents == {ActionPressed("speedUp"), ActionPressed("slowDown")}

\* C16: no step of the program changes the presets list, and the scale
\* changes only when an action-pressed "speedUp" or "slowDown" is delivered
\* to the Running state.
C16_OnlyStepsMutate ==
    [][/\ time_scale_presets' = time_scale_presets
       /\ time_scale' # time_scale =>
            /\ Top(stack) = "Running"
            /\ last'.event \in StepEvents
            /\ DeliverEvent(last'.event)
       /\ (last'.event \in StateEvents \ StepEvents /\ DeliverEvent(last'.event)) =>
            time_scale' = time_scale]_vars

\* a speedUp action delivered to Running has raised the scale
C16_Witness ==
    /\ last.state = "Running"
    /\ last.event = ActionPressed("speedUp")
    /\ Gt(time_scale, last.before)

\* C18: on any presets list a speed_up never decreases the scale and a
\* slow_down never increases it; the returned pair is (scale before, scale
\* after), and its two components are the same value exactly when the call
\* left the scale unchanged.
C18_StepDirection ==
    /\ SpeedUpCalled =>
          /\ ~Lt(time_scale, last.before)
          /\ time_scale # last.before => Gt(time_scale, last.before)
    /\ SlowDownCalled =>
          /\ ~Gt(time_scale, last.before)
          /\ time_scale # last.before => Lt(time_scale, last.before)
    /\ (SpeedUpCalled \/ SlowDownCalled) =>
          /\ last.ret = <<last.before, time_scale>>
          /\ (last.ret[1] = last.ret[2]) <=> (time_scale = last.before)

\* a slow_down on an unsorted list has lowered the scale
C18_Witness ==
    /\ SlowDownCalled
    /\ ~StrictlyIncreasing(time_scale_presets)
    /\ Lt(time_scale, last.before)
    /\ last.ret = <<last.before, time_scale>>

\* C19: round trip.  On strictly increasing presets, a slow_down that follows
\* a speed_up from a preset that is not the highest restores that preset, and
\* a speed_up that follows a slow_down from a preset that is not the lowest
\* restores that preset.
C19_RoundTrip ==
    [][/\ (/\ last.state = "Running"
           /\ SpeedUpCalled
           /\ StrictlyIncreasing(time_scale_presets)
           /\ last.before \in Range(time_scale_presets)
           /\ GreaterPresets(last.before) # {}
           /\ DeliverEvent(ActionPressed("slowDown"))) =>
            /\ time_scale # last.before
            /\ time_scale' = last.before
       /\ (/\ last.state = "Running"
           /\ SlowDownCalled
           /\ StrictlyIncreasing(time_scale_presets)
           /\ last.before \in Range(time_scale_presets)
           /\ SmallerPresets(last.before) # {}
           /\ DeliverEvent(ActionPressed("speedUp"))) =>
            /\ time_scale # last.before
            /\ time_scale' = last.before]_vars

\* a slow_down has brought the scale back to the preset it started from
C19_Witness ==
    /\ SlowDownCalled
    /\ StrictlyIncreasing(time_scale_presets)
    /\ initial_scale \in Range(time_scale_presets)
    /\ changed
    /\ time_scale = initial_scale
    /\ Lt(time_scale, last.before)

Ge(a, b) == a # NaN /\ b # NaN /\ a >= b

Le(a, b) == a # NaN /\ b # NaN /\ a <= b

\* the scale after n calls of speed_up from x
RECURSIVE SpeedUpTimes(_, _)
SpeedUpTimes(x, n) ==
    IF n = 0 THEN x
    ELSE SpeedUpTimes(increase_speed(time_scale_presets, x).time_scale, n - 1)

\* the scale after n calls of slow_down from x
RECURSIVE SlowDownTimes(_, _)
SlowDownTimes(x, n) ==
    IF n = 0 THEN x
    ELSE SlowDownTimes(decrease_speed(time_scale_presets, x).time_scale, n - 1)

SpeedUpFixed(y) == increase_speed(time_scale_presets, y).time_scale = y

SlowDownFixed(y) == decrease_speed(time_scale_presets, y).time_scale = y

\* C20 as stated: |presets| calls of speed_up reach a fixed point that is
\* greater than or equal to every preset (the maximum preset if the start was
\* below it), |presets| calls of slow_down one that is less than or equal to
\* every preset.
C20_Original ==
    /\ SpeedUpCalled =>
          LET y == SpeedUpTimes(last.before, Len(time_scale_presets))
          IN  /\ SpeedUpFixed(y)
              /\ \A q \in Range(time_scale_presets) : Ge(y, q)
    /\ SlowDownCalled =>
          LET y == SlowDownTimes(last.before, Len(time_scale_presets))
          IN  /\ SlowDownFixed(y)
              /\ \A q \in Range(time_scale_presets) : Le(y, q)

\* C20: |presets| calls of speed_up from any scale reach a fixed point, so
\* the scale changes at most |presets| times; at the fixed point no preset
\* is strictly greater than the scale, and it is the greatest preset if the
\* start was below that.  Symmetrically for slow_down, with no preset strictly
\* less and the least preset.
C20_Saturation ==
    /\ SpeedUpCalled =>
          LET y == SpeedUpTimes(last.before, Len(time_scale_presets))
          IN  /\ time_scale = SpeedUpTimes(last.before, 1)
              /\ SpeedUpFixed(y)
              /\ \A q \in Range(time_scale_presets) : ~Gt(q, y)
              /\ \A m \in Range(time_scale_presets) :
                   (Lt(last.before, m) /\ \A q \in Range(time_scale_presets) : ~Gt(q, m))
                      => y = m
    /\ SlowDownCalled =>
          LET y == SlowDownTimes(last.before, Len(time_scale_presets))
          IN  /\ time_scale = SlowDownTimes(last.before, 1)
              /\ SlowDownFixed(y)
              /\ \A q \in Range(time_scale_presets) : ~Lt(q, y)
              /\ \A m \in Range(time_scale_presets) :
                   (Gt(last.before, m) /\ \A q \in Range(time_scale_presets) : ~Lt(q, m))
                      => y = m

\* repeated speed_up calls have come to rest on a list that holds a NaN
C20_Witness ==
    /\ SpeedUpCalled
    /\ changed
    /\ time_scale = last.before
    /\ NaN \in Range(time_scale_presets)
    /\ \A q \in Range(time_scale_presets) : ~Gt(q, time_scale)

====
